---- MODULE Spec2Model ----
(***************************************************************************)
(* The certificate minting pipeline of lemur/certificates/service.py:      *)
(* mint, create_csr, create_path, load_ssl_pack, save_cert and             *)
(* delete_ssl_pack, run by several request workers that share /tmp.        *)
(*                                                                         *)
(* Every action is one externally visible step of mint (a mkdir, a file    *)
(* write, an external process, a plugin call), so that the steps of        *)
(* concurrent mints interleave the way the operating system lets them.     *)
(***************************************************************************)
EXTENDS Integers, Sequences, FiniteSets, TLC

\* ---------------------------------------------------------------- bounds
NumWorkers == 2      \* request workers that may run mint concurrently
MaxTime == 1         \* the clock runs over the seconds 0..MaxTime
MaxAccounts == 3     \* requested destination accounts per mint
MaxExitCode == 2     \* external processes exit with 0..MaxExitCode
MaxSeed == 25        \* the random source starts in a state of 0..MaxSeed
MaxStep == 2         \* and advances by a step of 0..MaxStep per draw

Workers == 1..NumWorkers
ExitCodes == 0..MaxExitCode
Times == 0..MaxTime

\* ------------------------------------------------------------ input data
\* The plugin names a request may carry, and the CSR configurations the
\* issuer's get_csr_config may return.
PluginNames == {"cloudca", "unregistered"}
RegisteredPlugins == {"cloudca"}
Configs == {"cfgA"}
\* issuer_options.get('accounts'): the account ids 1..n in request order.
AccountLists == {[i \in 1..n |-> i] : n \in 0..MaxAccounts}
Options == [plugin : PluginNames, cfg : Configs, accounts : AccountLists]

\* ------------------------------------------------------------ filesystem
ExpectedFiles == {"challenge.txt", "csr_config.txt", "private.key", "request.csr"}
ExtraFiles == {"extra.a", "extra.b"}
FileNames == ExpectedFiles \cup ExtraFiles
Absent == "<absent>"

\* hashlib.md5(csr_config).hexdigest(): the digest names its input, so
\* that equal configurations, and only they, get equal digests.
md5(cfg) == <<"md5", cfg>>
Hashes == {md5(c) : c \in Configs}

\* os.path.join('/tmp', domain_hash)
HashPath(h) == <<h>>
\* os.path.join('/tmp', "{}.{}".format(domain_hash, now.strftime('%s')))
StampPath(h, t) == <<h, t>>
AllPaths == {HashPath(h) : h \in Hashes} \cup {StampPath(h, t) : h \in Hashes, t \in Times}
NoPath == <<>>

NoFiles == [n \in FileNames |-> Absent]
NoDir == [exists |-> FALSE, by |-> 0, files |-> NoFiles]

VARIABLES
    fs,       \* /tmp: path -> directory (exists, the worker whose running or
              \* last mint call made it, or 0 for an earlier call, files)
    now,      \* the clock, in whole seconds
    st,       \* per worker: the locals and the position of its mint call
    rnd       \* a create_challenge call: the random source and the characters
              \* joined so far

vars == <<fs, now, st, rnd>>

\* No create_challenge call is observed.
NoRandom == [state |-> 0, step |-> 0, out |-> <<>>, returned |-> FALSE]

\* os.listdir(path)
listdir(d) == {n \in FileNames : d.files[n] # Absent}

\* os.mkdir(path) raises OSError when the path exists.
MkdirNeverFails(f, path) == FALSE
MkdirFails(f, path) == f[path].exists

\* os.mkdir(path) of a path that is free, by the mint call of worker id
Mkdir(f, path, id) ==
    [f EXCEPT ![path] = [exists |-> TRUE, by |-> id, files |-> NoFiles]]

\* open(name, 'w').write(content) in directory path
WriteFile(f, path, name, content) ==
    [f EXCEPT ![path].files[name] = content]

\* srm -r path, exit code 0
RemoveTreeKept(f, path) == f
RemoveTreeOfHashName(f, path) == [f EXCEPT ![HashPath(path[1])] = NoDir]
RemoveTree(f, path) == [f EXCEPT ![path] = NoDir]


\* ------------------------------------------------------- a worker's mint
NoErr == [kind |-> "none", arg |-> {}]
Raised(kind, arg) == [kind |-> kind, arg |-> {arg}]

\* load_ssl_pack's result tuple (challenge, csr, csr_config, private_key)
NoPack == [challenge |-> Absent, csr |-> Absent, csr_config |-> Absent,
           private_key |-> Absent]

\* Certificate(cert_body, private_key, challenge, cert_chain, csr_config),
\* with cert.accounts
NoCert == [made |-> FALSE, body |-> Absent, private_key |-> Absent,
           challenge |-> Absent, chain |-> Absent, csr_config |-> Absent,
           accounts |-> <<>>]
Certificate(body, key, challenge, chain, cfg) ==
    [made |-> TRUE, body |-> body, private_key |-> key, challenge |-> challenge,
     chain |-> chain, csr_config |-> cfg, accounts |-> <<>>]

NoExits == [genrsa |-> {}, req |-> {}, srm |-> {}]

\* A worker that runs no mint call.
IdleWorker ==
    [pc |-> "idle",
     opts |-> [plugin |-> "cloudca", cfg |-> "cfgA", accounts |-> <<>>],
     path |-> NoPath, listing |-> {}, pack |-> NoPack, sign |-> "not called",
     cert |-> NoCert, uploads |-> <<>>, persisted |-> FALSE,
     exit |-> NoExits, err |-> NoErr]

\* The locals of mint(issuer_options) on entry.
Entered(o) == [IdleWorker EXCEPT !.opts = o, !.pc = "get_plugin"]

\* The directories worker p's last call left behind are those of an
\* earlier call once p runs a new one.
Disown(f, p) ==
    [d \in AllPaths |-> IF f[d].by = p THEN [f[d] EXCEPT !.by = 0] ELSE f[d]]

Terminated(p) == st[p].pc \in {"done", "aborted"}
InFlight(p) == st[p].pc \notin {"idle", "done", "aborted"}

\* The mint call of worker p raises: the exception leaves mint.
Abort(p, kind, arg) ==
    st' = [st EXCEPT ![p].pc = "aborted", ![p].err = Raised(kind, arg)]

Init ==
    /\ fs = [d \in AllPaths |-> NoDir]
    /\ now = 0
    /\ st = [p \in Workers |-> IdleWorker]
    /\ rnd = NoRandom

\* A caller invokes mint(issuer_options) on a free worker.
mint(p, o) ==
    /\ st[p].pc \in {"idle", "done", "aborted"}
    /\ st' = [st EXCEPT ![p] = Entered(o)]
    /\ fs' = Disown(fs, p)
    /\ UNCHANGED <<now, rnd>>

\* get_plugin_by_name(authority.plugin_name)
get_plugin_by_name(name) == name \in RegisteredPlugins

\* mint: the lookup and issuer.get_csr_config come before create_csr.
AfterLookupAlways(found) == "create_path"
AfterLookup(found) == IF found THEN "create_path" ELSE "aborted"

get_plugin(p) ==
    /\ st[p].pc = "get_plugin"
    /\ LET found == get_plugin_by_name(st[p].opts.plugin)
           next == AfterLookup(found) IN
       st' = [st EXCEPT ![p].pc = next,
                        ![p].err = IF next = "aborted"
                                   THEN Raised("PluginLookupError", st[p].opts.plugin)
                                   ELSE NoErr]
    /\ UNCHANGED <<fs, now, rnd>>

\* create_path: os.mkdir(path) of the hash name.
create_path_mkdir(p) ==
    /\ st[p].pc = "create_path"
    /\ LET path == HashPath(md5(st[p].opts.cfg)) IN
       IF MkdirFails(fs, path)
       THEN /\ st' = [st EXCEPT ![p].pc = "create_path_retry"]
            /\ fs' = fs
       ELSE /\ fs' = Mkdir(fs, path, p)
            /\ st' = [st EXCEPT ![p].pc = "write_challenge", ![p].path = path]
    /\ UNCHANGED <<now, rnd>>

\* create_path, except OSError: os.mkdir of the name with the timestamp.
create_path_retry_adopts(p) ==
    /\ st[p].pc = "create_path_retry"
    /\ LET path == StampPath(md5(st[p].opts.cfg), now) IN
       /\ fs' = IF fs[path].exists THEN fs ELSE Mkdir(fs, path, p)
       /\ st' = [st EXCEPT ![p].pc = "write_challenge", ![p].path = path]
    /\ UNCHANGED <<now, rnd>>

create_path_retry(p) ==
    /\ st[p].pc = "create_path_retry"
    /\ LET path == StampPath(md5(st[p].opts.cfg), now) IN
       IF MkdirFails(fs, path)
       THEN /\ Abort(p, "OSError", path)
            /\ fs' = fs
       ELSE /\ fs' = Mkdir(fs, path, p)
            /\ st' = [st EXCEPT ![p].pc = "write_challenge", ![p].path = path]
    /\ UNCHANGED <<now, rnd>>

\* create_challenge(): the generated challenge string.
create_challenge == "challenge"

\* create_csr: write name into path, or IOError when the directory is gone.
WriteStep(p, name, content, next) ==
    IF fs[st[p].path].exists
    THEN /\ fs' = WriteFile(fs, st[p].path, name, content)
         /\ st' = [st EXCEPT ![p].pc = next]
    ELSE /\ Abort(p, "IOError", name)
         /\ fs' = fs

create_csr_challenge(p) ==
    /\ st[p].pc = "write_challenge"
    /\ WriteStep(p, "challenge.txt", create_challenge, "write_csr_config")
    /\ UNCHANGED <<now, rnd>>

create_csr_config(p) ==
    /\ st[p].pc = "write_csr_config"
    /\ WriteStep(p, "csr_config.txt", st[p].opts.cfg, "genrsa")
    /\ UNCHANGED <<now, rnd>>

\* subprocess.call([...]) returned code: `if code != 0: raise`.
GenRsaExitIgnored(code) == FALSE
GenRsaFailed(code) == code # 0
ReqExitIgnored(code) == FALSE
ReqFailed(code) == code # 0

\* create_csr: openssl genrsa -out path/private.key 2048.  The process
\* writes its output file when it exits with 0, which it cannot do without
\* the directory.
create_csr_genrsa(p, code) ==
    /\ st[p].pc = "genrsa"
    /\ code = 0 => fs[st[p].path].exists
    /\ IF GenRsaFailed(code)
       THEN /\ st' = [st EXCEPT ![p].pc = "aborted", ![p].exit.genrsa = {code},
                                ![p].err = Raised("UnableToCreatePrivateKey", code)]
            /\ fs' = fs
       ELSE /\ st' = [st EXCEPT ![p].pc = "req", ![p].exit.genrsa = {code}]
            /\ fs' = IF code = 0
                     THEN WriteFile(fs, st[p].path, "private.key", "key")
                     ELSE fs
    /\ UNCHANGED <<now, rnd>>

\* create_csr: openssl req -new -config csr_config.txt -key private.key
\* -out request.csr.  It cannot exit with 0 without its two input files.
create_csr_req(p, code) ==
    /\ st[p].pc = "req"
    /\ LET d == fs[st[p].path] IN
       code = 0 => /\ d.exists
                   /\ {"csr_config.txt", "private.key"} \subseteq listdir(d)
    /\ IF ReqFailed(code)
       THEN /\ st' = [st EXCEPT ![p].pc = "aborted", ![p].exit.req = {code},
                                ![p].err = Raised("UnableToCreateCSR", code)]
            /\ fs' = fs
       ELSE /\ st' = [st EXCEPT ![p].pc = "load_ssl_pack", ![p].exit.req = {code}]
            /\ fs' = IF code = 0
                     THEN WriteFile(fs, st[p].path, "request.csr", "csr")
                     ELSE fs
    /\ UNCHANGED <<now, rnd>>

\* load_ssl_pack: `if len(os.listdir(path)) != 4: raise MissingFiles(path)`
CountOk(names) == Cardinality(names) = 4

\* load_ssl_pack(path) on directory d: the exception it raises, or "none".
\* After the count, each open() of a file that is not there raises IOError.
load_ssl_pack_error(d) ==
    IF ~d.exists THEN "OSError"
    ELSE IF ~CountOk(listdir(d)) THEN "MissingFiles"
    ELSE IF ~(ExpectedFiles \subseteq listdir(d)) THEN "IOError"
    ELSE "none"

\* load_ssl_pack(path) on directory d: the tuple it returns.
load_ssl_pack_value(d) ==
    [challenge |-> d.files["challenge.txt"], csr |-> d.files["request.csr"],
     csr_config |-> d.files["csr_config.txt"], private_key |-> d.files["private.key"]]

\* mint: challenge, csr, csr_config, private_key = load_ssl_pack(path)
load_ssl_pack(p) ==
    /\ st[p].pc = "load_ssl_pack"
    /\ LET d == fs[st[p].path]
           e == load_ssl_pack_error(d) IN
       IF e # "none"
       THEN st' = [st EXCEPT ![p].pc = "aborted", ![p].listing = listdir(d),
                             ![p].err = Raised(e, st[p].path)]
       ELSE st' = [st EXCEPT ![p].pc = "create_certificate",
                             ![p].listing = listdir(d),
                             ![p].pack = load_ssl_pack_value(d)]
    /\ UNCHANGED <<fs, now, rnd>>

\* mint: an exception of issuer.create_certificate leaves mint.
SignFailureIgnored(ok) == "save_cert"
AfterSign(ok) == IF ok THEN "save_cert" ELSE "aborted"

\* mint: cert_body, cert_chain = issuer.create_certificate(csr, issuer_options)
issuer_create_certificate(p, ok) ==
    /\ st[p].pc = "create_certificate"
    /\ LET next == AfterSign(ok) IN
       st' = [st EXCEPT ![p].pc = next, ![p].sign = IF ok THEN "returned" ELSE "raised",
                        ![p].err = IF next = "aborted"
                                   THEN Raised("IssuerError", st[p].pack.csr)
                                   ELSE NoErr]
    /\ UNCHANGED <<fs, now, rnd>>

\* save_cert(cert_body, private_key, cert_chain, challenge, csr_config, ...):
\* cert = Certificate(cert_body, private_key, challenge, cert_chain, csr_config)
save_cert_in_order(body, key, chain, challenge, cfg) ==
    Certificate(body, key, chain, challenge, cfg)
save_cert(body, key, chain, challenge, cfg) ==
    Certificate(body, key, challenge, chain, cfg)

\* mint: cert = save_cert(cert_body, private_key, cert_chain, challenge,
\* csr_config, issuer_options.get('accounts')), up to the loop.
save_cert_construct(p) ==
    /\ st[p].pc = "save_cert"
    /\ st' = [st EXCEPT ![p].pc = "upload",
                        ![p].cert = save_cert("body", st[p].pack.private_key, "chain",
                                              st[p].pack.challenge,
                                              st[p].pack.csr_config)]
    /\ UNCHANGED <<fs, now, rnd>>

\* save_cert: the accounts still to upload to, in the loop's order.
PendingAccountsSkipFirst(p) ==
    SubSeq(st[p].opts.accounts, Len(st[p].uploads) + 2, Len(st[p].opts.accounts))
PendingAccounts(p) ==
    SubSeq(st[p].opts.accounts, Len(st[p].uploads) + 1, Len(st[p].opts.accounts))

\* save_cert, one turn of `for account in accounts`: account_service.get,
\* iam.upload_cert, cert.accounts.append(account).  An exception of the
\* upload leaves save_cert and mint.
save_cert_upload_appends_first(p, ok) ==
    /\ st[p].pc = "upload"
    /\ PendingAccounts(p) # <<>>
    /\ LET account == Head(PendingAccounts(p)) IN
       IF ok
       THEN st' = [st EXCEPT ![p].uploads = Append(@, <<account, TRUE>>),
                             ![p].cert.accounts = Append(@, account)]
       ELSE st' = [st EXCEPT ![p].uploads = Append(@, <<account, FALSE>>),
                             ![p].cert.accounts = Append(@, account),
                             ![p].pc = "aborted",
                             ![p].err = Raised("UploadError", account)]
    /\ UNCHANGED <<fs, now, rnd>>

save_cert_upload(p, ok) ==
    /\ st[p].pc = "upload"
    /\ PendingAccounts(p) # <<>>
    /\ LET account == Head(PendingAccounts(p)) IN
       IF ok
       THEN st' = [st EXCEPT ![p].uploads = Append(@, <<account, TRUE>>),
                             ![p].cert.accounts = Append(@, account)]
       ELSE st' = [st EXCEPT ![p].uploads = Append(@, <<account, FALSE>>),
                             ![p].pc = "aborted",
                             ![p].err = Raised("UploadError", account)]
    /\ UNCHANGED <<fs, now, rnd>>

\* mint: save_cert has returned; database.update(cert)
database_update(p, ok) ==
    /\ st[p].pc = "upload"
    /\ PendingAccounts(p) = <<>>
    /\ IF ok
       THEN st' = [st EXCEPT ![p].pc = "delete_ssl_pack", ![p].persisted = TRUE]
       ELSE Abort(p, "DatabaseError", "cert")
    /\ UNCHANGED <<fs, now, rnd>>

\* delete_ssl_pack: subprocess.check_call raises CalledProcessError on a
\* non-zero exit code.
SrmExitIgnored(code) == FALSE
SrmFailed(code) == code # 0

\* mint: delete_ssl_pack(path), then `return cert, private_key, cert_chain`.
\* srm removes the tree when it exits with 0.
delete_ssl_pack(p, code) ==
    /\ st[p].pc = "delete_ssl_pack"
    /\ fs' = IF code = 0 THEN RemoveTree(fs, st[p].path) ELSE fs
    /\ IF SrmFailed(code)
       THEN st' = [st EXCEPT ![p].pc = "aborted", ![p].exit.srm = {code},
                             ![p].err = Raised("CalledProcessError", code)]
       ELSE st' = [st EXCEPT ![p].pc = "done", ![p].exit.srm = {code}]
    /\ UNCHANGED <<now, rnd>>

\* A second passes.
Tick ==
    /\ now < MaxTime
    /\ now' = now + 1
    /\ UNCHANGED <<fs, st, rnd>>

Next ==
    \/ \E p \in Workers, o \in Options : mint(p, o)
    \/ \E p \in Workers : get_plugin(p)
    \/ \E p \in Workers : create_path_mkdir(p)
    \/ \E p \in Workers : create_path_retry(p)
    \/ \E p \in Workers : create_csr_challenge(p)
    \/ \E p \in Workers : create_csr_config(p)
    \/ \E p \in Workers, code \in ExitCodes : create_csr_genrsa(p, code)
    \/ \E p \in Workers, code \in ExitCodes : create_csr_req(p, code)
    \/ \E p \in Workers : load_ssl_pack(p)
    \/ \E p \in Workers, ok \in BOOLEAN : issuer_create_certificate(p, ok)
    \/ \E p \in Workers : save_cert_construct(p)
    \/ \E p \in Workers, ok \in BOOLEAN : save_cert_upload(p, ok)
    \/ \E p \in Workers, ok \in BOOLEAN : database_update(p, ok)
    \/ \E p \in Workers, code \in ExitCodes : delete_ssl_pack(p, code)
    \/ Tick

Spec == Init /\ [][Next]_vars

\* ------------------------------------------------ load_ssl_pack alone
\* load_ssl_pack applied to a directory of any content: every subset of
\* FileNames, each file holding the content its name stands for.
ContentOf(n) ==
    CASE n = "challenge.txt" -> create_challenge
      [] n = "csr_config.txt" -> "cfgA"
      [] n = "private.key" -> "key"
      [] n = "request.csr" -> "csr"
      [] OTHER -> "other"

LoadPath == HashPath(md5("cfgA"))

InitLoad ==
    /\ \E names \in SUBSET FileNames :
         fs = [d \in AllPaths |->
                 IF d = LoadPath
                 THEN [exists |-> TRUE, by |-> 1,
                       files |-> [n \in FileNames |->
                                    IF n \in names THEN ContentOf(n) ELSE Absent]]
                 ELSE NoDir]
    /\ now = 0
    /\ st = [p \in Workers |->
               IF p = 1
               THEN [Entered([plugin |-> "cloudca", cfg |-> "cfgA",
                                 accounts |-> <<>>])
                       EXCEPT !.pc = "load_ssl_pack", !.path = LoadPath]
               ELSE IdleWorker]
    /\ rnd = NoRandom

NextLoad == \E p \in Workers : load_ssl_pack(p)

SpecLoad == InitLoad /\ [][NextLoad]_vars

\* ---------------------------------------------- create_challenge alone
\* string.ascii_uppercase
ascii_uppercase ==
    <<"A", "B", "C", "D", "E", "F", "G", "H", "I", "J", "K", "L", "M",
      "N", "O", "P", "Q", "R", "S", "T", "U", "V", "W", "X", "Y", "Z">>
\* the literal "~!@#$%^&*()_+"
challenge_symbols ==
    <<"~", "!", "@", "#", "$", "%", "^", "&", "*", "(", ")", "_", "+">>
\* string.ascii_lowercase
ascii_lowercase ==
    <<"a", "b", "c", "d", "e", "f", "g", "h", "i", "j", "k", "l", "m",
      "n", "o", "p", "q", "r", "s", "t", "u", "v", "w", "x", "y", "z">>
\* string.digits
digits == <<"0", "1", "2", "3", "4", "5", "6", "7", "8", "9">>

\* range(6): the draws of each of the four joins
SegmentLength == 6

\* The alphabets of the four joins, in statement order.
AlphabetsSymbolsThird ==
    <<ascii_uppercase, ascii_lowercase, challenge_symbols, digits>>
Alphabets ==
    <<ascii_uppercase, challenge_symbols, ascii_lowercase, digits>>

\* random.choice(seq) when the random source yields r
random_choice(seq, r) == seq[(r % Len(seq)) + 1]

\* create_challenge is called; the random source is in any state.
InitChallenge ==
    /\ fs = [d \in AllPaths |-> NoDir]
    /\ now = 0
    /\ st = [p \in Workers |-> IdleWorker]
    /\ \E s \in 0..MaxSeed, b \in 0..MaxStep :
         rnd = [state |-> s, step |-> b, out |-> <<>>, returned |-> FALSE]

\* One random.choice of the running join: the join that the number of
\* characters drawn so far is in picks the alphabet.
create_challenge_choice ==
    /\ ~rnd.returned
    /\ Len(rnd.out) < Len(Alphabets) * SegmentLength
    /\ LET alphabet == Alphabets[(Len(rnd.out) \div SegmentLength) + 1] IN
       rnd' = [rnd EXCEPT !.out = Append(@, random_choice(alphabet, rnd.state)),
                          !.state = @ + rnd.step]
    /\ UNCHANGED <<fs, now, st>>

\* return challenge, after the last join
create_challenge_return ==
    /\ ~rnd.returned
    /\ Len(rnd.out) = Len(Alphabets) * SegmentLength
    /\ rnd' = [rnd EXCEPT !.returned = TRUE]
    /\ UNCHANGED <<fs, now, st>>

NextChallenge == create_challenge_choice \/ create_challenge_return

SpecChallenge == InitChallenge /\ [][NextChallenge]_vars

\* ---------------------------------------------------------------- claims
\* The directory worker p's mint call created is still on disk.
OwnDirExists(p) ==
    /\ st[p].path # NoPath
    /\ fs[st[p].path].exists
    /\ fs[st[p].path].by = p

UploadFailed(p) == \E i \in 1..Len(st[p].uploads) : ~st[p].uploads[i][2]

\* C1: every mint call that created a workspace directory has, once it has
\* returned or raised, run the secure erase and left no directory behind.
C1_WorkspaceGoneAtTermination ==
    \A p \in Workers :
        (Terminated(p) /\ st[p].path # NoPath) =>
            /\ ~OwnDirExists(p)
            /\ st[p].exit.srm # {}

\* C2: when the upload to one requested account fails, the upload is still
\* attempted for every other requested account, the accounts whose upload
\* succeeded are the associated ones, and mint does not raise the failure.
C2_UploadsIndependent ==
    \A p \in Workers :
        (Terminated(p) /\ UploadFailed(p)) =>
            /\ Len(st[p].uploads) = Len(st[p].opts.accounts)
            /\ st[p].err.kind # "UploadError"
            /\ st[p].cert.accounts =
                 SelectSeq(st[p].opts.accounts,
                           LAMBDA a : \E i \in 1..Len(st[p].uploads) :
                                         st[p].uploads[i] = <<a, TRUE>>)

C4_ExclusiveWorkspace ==
    \A p \in Workers :
        (InFlight(p) /\ st[p].path # NoPath) =>
            /\ OwnDirExists(p)
            /\ \/ st[p].path = HashPath(md5(st[p].opts.cfg))
               \/ \E t \in Times : st[p].path = StampPath(md5(st[p].opts.cfg), t)
            /\ \A q \in Workers \ {p} : InFlight(q) => st[q].path # st[p].path

\* C4 witness: two calls with the same hash in flight, the first in the
\* hash-named directory, the colliding one in a timestamp-suffixed one.
C4_Witness ==
    \E p, q \in Workers :
        /\ p # q /\ InFlight(p) /\ InFlight(q)
        /\ st[p].opts.cfg = st[q].opts.cfg
        /\ st[p].path = HashPath(md5(st[p].opts.cfg))
        /\ \E t \in Times : st[q].path = StampPath(md5(st[q].opts.cfg), t)
        /\ listdir(fs[st[p].path]) # {} /\ listdir(fs[st[q].path]) # {}

\* C5: load_ssl_pack returns exactly when the directory holds the four
\* expected files and nothing else, and raises MissingFiles for every other
\* content.
C5_LoadIffExactlyFour ==
    \A p \in Workers :
        (st[p].path # NoPath /\ st[p].pc \in {"create_certificate", "aborted"}) =>
            IF st[p].listing = ExpectedFiles
            THEN st[p].pc = "create_certificate" /\ st[p].err = NoErr
            ELSE st[p].pc = "aborted" /\ st[p].err.kind = "MissingFiles"

\* C6: a non-zero exit code c of openssl genrsa raises
\* UnableToCreatePrivateKey(c) and openssl req is never started; a non-zero
\* exit code c of openssl req raises UnableToCreateCSR(c); in both cases the
\* issuer is never called and no Certificate is constructed.
C6_ExitCodeMapping ==
    \A p \in Workers :
        /\ \A c \in st[p].exit.genrsa : c # 0 =>
              /\ st[p].pc = "aborted"
              /\ st[p].err = Raised("UnableToCreatePrivateKey", c)
              /\ st[p].exit.req = {}
              /\ st[p].sign = "not called"
              /\ ~st[p].cert.made
        /\ \A c \in st[p].exit.req : c # 0 =>
              /\ st[p].pc = "aborted"
              /\ st[p].err = Raised("UnableToCreateCSR", c)
              /\ st[p].sign = "not called"
              /\ ~st[p].cert.made

\* C6 witness: one call whose key generation failed, one whose CSR
\* generation failed.
C6_Witness ==
    \E p, q \in Workers :
        /\ \E c \in st[p].exit.genrsa : c # 0
        /\ \E c \in st[q].exit.req : c # 0

\* C7: when srm exits with a non-zero code c, mint raises
\* CalledProcessError(c); a mint that has returned ran srm with exit code 0
\* and its workspace directory is gone.
C7_EraseFailureIsFatal ==
    \A p \in Workers :
        /\ \A c \in st[p].exit.srm : c # 0 =>
              /\ st[p].pc = "aborted"
              /\ st[p].err = Raised("CalledProcessError", c)
        /\ st[p].pc = "done" =>
              /\ st[p].exit.srm = {0}
              /\ ~OwnDirExists(p)

\* C7 witness: srm failed and the directory with the private key is still
\* on disk.
C7_Witness ==
    \E p \in Workers :
        /\ \E c \in st[p].exit.srm : c # 0
        /\ OwnDirExists(p)
        /\ fs[st[p].path].files["private.key"] # Absent

\* C8: a mint call whose plugin name is not registered aborts at the lookup:
\* it holds no directory, no directory on disk was made by it, and it has
\* started no external process.
C8_UnknownPluginNoWorkspace ==
    \A p \in Workers :
        (st[p].pc # "idle" /\ ~get_plugin_by_name(st[p].opts.plugin)) =>
            /\ st[p].pc \in {"get_plugin", "aborted"}
            /\ st[p].pc = "aborted" => st[p].err.kind = "PluginLookupError"
            /\ st[p].path = NoPath
            /\ st[p].exit = NoExits
            /\ \A d \in AllPaths : ~(fs[d].exists /\ fs[d].by = p)

\* C8 witness: a call aborted at the plugin lookup while another call's
\* workspace is on disk.
C8_Witness ==
    \E p, q \in Workers :
        /\ st[p].pc = "aborted"
        /\ st[p].err.kind = "PluginLookupError"
        /\ OwnDirExists(q)

\* C9: a Certificate object exists for a mint call only if load_ssl_pack
\* found all four expected files and issuer.create_certificate returned.
C9_CertificateOnlyFromFullPack ==
    \A p \in Workers :
        st[p].cert.made =>
            /\ ExpectedFiles \subseteq st[p].listing
            /\ st[p].pack = [challenge |-> create_challenge, csr |-> "csr",
                             csr_config |-> st[p].opts.cfg, private_key |-> "key"]
            /\ st[p].sign = "returned"

\* C9 witness: a Certificate has been constructed.
C9_Witness ==
    \E p \in Workers : st[p].cert.made /\ st[p].pc = "upload"

\* The steps of worker p's mint call.
MintStep(p) ==
    \/ get_plugin(p)
    \/ create_path_mkdir(p)
    \/ create_path_retry(p)
    \/ create_csr_challenge(p)
    \/ create_csr_config(p)
    \/ \E code \in ExitCodes : create_csr_genrsa(p, code)
    \/ \E code \in ExitCodes : create_csr_req(p, code)
    \/ load_ssl_pack(p)
    \/ \E ok \in BOOLEAN : issuer_create_certificate(p, ok)
    \/ save_cert_construct(p)
    \/ \E ok \in BOOLEAN : save_cert_upload(p, ok)
    \/ \E ok \in BOOLEAN : database_update(p, ok)
    \/ \E code \in ExitCodes : delete_ssl_pack(p, code)

\* C10: a mint call with no requested accounts that has returned holds a
\* Certificate built from the signed body, the chain and the challenge, made
\* no upload, raised nothing, and its workspace directory is gone; and a
\* call in flight can always take its next step.
C10_DoneWithoutAccounts ==
    \A p \in Workers :
        /\ (st[p].pc = "done" /\ st[p].opts.accounts = <<>>) =>
              /\ st[p].cert.made
              /\ st[p].cert.body = "body"
              /\ st[p].cert.chain = "chain"
              /\ st[p].cert.challenge = create_challenge
              /\ st[p].cert.accounts = <<>>
              /\ st[p].uploads = <<>>
              /\ st[p].err = NoErr
              /\ st[p].persisted
              /\ ~OwnDirExists(p)
        /\ InFlight(p) => ENABLED MintStep(p)

\* C10 witness: a mint call without accounts has returned.
C10_Witness ==
    \E p \in Workers :
        /\ st[p].pc = "done"
        /\ st[p].opts.accounts = <<>>
        /\ st[p].path # NoPath

\* The accounts iam.upload_cert was called for, in call order.
UploadedAccounts(p) == [i \in 1..Len(st[p].uploads) |-> st[p].uploads[i][1]]

\* C11: the uploads made so far are, in order, the first requested accounts,
\* one call each, and none is made before the Certificate exists; once
\* save_cert has returned without a failed upload (database.update, srm,
\* return) there was exactly one upload per requested account; with no
\* requested account there is none.
C11_OneUploadPerAccountInOrder ==
    \A p \in Workers :
        /\ Len(st[p].uploads) <= Len(st[p].opts.accounts)
        /\ UploadedAccounts(p) = SubSeq(st[p].opts.accounts, 1, Len(st[p].uploads))
        /\ st[p].uploads # <<>> => st[p].cert.made /\ st[p].sign = "returned"
        /\ (st[p].persisted \/ st[p].pc \in {"delete_ssl_pack", "done"}) =>
              /\ ~UploadFailed(p)
              /\ UploadedAccounts(p) = st[p].opts.accounts
        /\ st[p].opts.accounts = <<>> => st[p].uploads = <<>>

\* C11 witness: a mint with several requested accounts has returned after
\* uploading to each.
C11_Witness ==
    \E p \in Workers :
        /\ st[p].pc = "done"
        /\ Len(st[p].opts.accounts) >= 2
        /\ UploadedAccounts(p) = st[p].opts.accounts
        /\ ~UploadFailed(p)

\* C12: every value create_challenge returns has exactly 24 characters:
\* six upper-case ASCII letters, then six characters of ~!@#$%^&*()_+, then
\* six lower-case ASCII letters, then six decimal digits.
C12_ChallengeShape ==
    rnd.returned =>
        /\ Len(rnd.out) = 24
        /\ \A i \in 1..6 : \E k \in DOMAIN ascii_uppercase : rnd.out[i] = ascii_uppercase[k]
        /\ \A i \in 7..12 : \E k \in DOMAIN challenge_symbols : rnd.out[i] = challenge_symbols[k]
        /\ \A i \in 13..18 : \E k \in DOMAIN ascii_lowercase : rnd.out[i] = ascii_lowercase[k]
        /\ \A i \in 19..24 : \E k \in DOMAIN digits : rnd.out[i] = digits[k]

C12_Witness ==
    /\ rnd.returned
    /\ Len(rnd.out) = 24
    /\ rnd.out[1] # rnd.out[2]
    /\ rnd.out[7] # rnd.out[8]
    /\ rnd.out[19] # rnd.out[24]

\* C13: workspace creation tries at most two directory names, the hash name
\* and then once the name with the timestamp; when the retried name exists
\* too, the call terminates with OSError, owns no directory, has run no
\* later step, and leaves every existing directory as it was.
C13_TwoNamesThenFatal ==
    [][\A p \in Workers :
         LET h == md5(st[p].opts.cfg) IN
         /\ \A d \in AllPaths :
              (~fs[d].exists /\ fs'[d].exists /\ fs'[d].by = p) =>
                 \/ st[p].pc = "create_path" /\ d = HashPath(h)
                 \/ st[p].pc = "create_path_retry" /\ d = StampPath(h, now)
         /\ (st[p].pc = "create_path" /\ st'[p] # st[p]) =>
                 st'[p].pc \in {"write_challenge", "create_path_retry"}
         /\ (st[p].pc = "create_path_retry" /\ st'[p] # st[p]) =>
                 st'[p].pc \in {"write_challenge", "aborted"}
         /\ (st[p].pc = "create_path_retry" /\ st'[p] # st[p]
                /\ fs[StampPath(h, now)].exists) =>
                 /\ st'[p].pc = "aborted"
                 /\ st'[p].err = Raised("OSError", StampPath(h, now))
                 /\ fs' = fs
         /\ st'[p].err.kind = "OSError" =>
                 /\ st'[p].pc = "aborted"
                 /\ st'[p].path = NoPath
                 /\ st'[p].exit = NoExits
                 /\ \A d \in AllPaths : fs'[d].by # p
    ]_vars

C13_Witness ==
    \E p \in Workers :
        /\ st[p].pc = "aborted"
        /\ st[p].err = Raised("OSError", StampPath(md5(st[p].opts.cfg), now))
        /\ \A d \in {HashPath(md5(st[p].opts.cfg))} \cup st[p].err.arg :
             fs[d].exists /\ fs[d].by # p /\ listdir(fs[d]) # {}

\* C14: the steps of one mint call run one after the other: the challenge
\* and the CSR config are in the workspace when key generation starts, the
\* CSR process starts only after key generation exited with 0, the issuer
\* signs only after the CSR process exited with 0 and the workspace was read
\* back, and the secure erase starts only after signing, every upload and
\* database.update have completed.
C14_StepsInOrder ==
    \A p \in Workers :
        LET w == st[p] IN
        /\ w.pc = "genrsa" =>
              /\ w.exit = NoExits
              /\ fs[w.path].files["challenge.txt"] = create_challenge
              /\ fs[w.path].files["csr_config.txt"] = w.opts.cfg
        /\ w.exit.genrsa # {} => w.pc \notin {"write_challenge", "write_csr_config"}
        /\ (w.pc = "req" \/ w.exit.req # {}) => w.exit.genrsa = {0}
        /\ w.pc = "req" => w.exit.req = {} /\ w.pack = NoPack
        /\ (w.pc = "load_ssl_pack" \/ w.listing # {}) => w.exit.req = {0}
        /\ (w.pc = "create_certificate" \/ w.sign # "not called") =>
              /\ w.exit.req = {0}
              /\ w.pack # NoPack
        /\ w.pc = "create_certificate" => w.sign = "not called" /\ ~w.cert.made
        /\ (w.cert.made \/ w.uploads # <<>>) => w.sign = "returned"
        /\ w.persisted => Len(w.uploads) = Len(w.opts.accounts)
        /\ (w.pc = "delete_ssl_pack" \/ w.exit.srm # {}) =>
              /\ w.sign = "returned"
              /\ w.cert.made
              /\ Len(w.uploads) = Len(w.opts.accounts)
              /\ \A i \in 1..Len(w.uploads) : w.uploads[i][2]
              /\ w.persisted
        /\ w.pc = "delete_ssl_pack" => w.exit.srm = {}
        /\ w.pc = "done" => w.exit = [genrsa |-> {0}, req |-> {0}, srm |-> {0}]

C14_Witness ==
    \E p \in Workers :
        /\ st[p].pc = "done"
        /\ st[p].exit = [genrsa |-> {0}, req |-> {0}, srm |-> {0}]
        /\ st[p].opts.accounts # <<>>
        /\ st[p].persisted

\* C15: a mint call changes the filesystem only inside the directory it
\* created itself: it makes that directory where none was, writes its files
\* into it, and its srm removes that directory and no other, whether the
\* other has the same hash name with or without the timestamp.
C15_OnlyOwnWorkspace ==
    [][\A d \in AllPaths :
         (fs'[d].exists # fs[d].exists \/ fs'[d].files # fs[d].files) =>
            \E p \in Workers :
               /\ st'[p] # st[p]
               /\ \A q \in Workers \ {p} : st'[q] = st[q]
               /\ \A e \in AllPaths \ {d} :
                     fs'[e].exists = fs[e].exists /\ fs'[e].files = fs[e].files
               /\ \/ /\ st[p].pc \in {"create_path", "create_path_retry"}
                     /\ ~fs[d].exists
                     /\ fs'[d] = [exists |-> TRUE, by |-> p, files |-> NoFiles]
                     /\ st'[p].path = d
                  \/ /\ st[p].pc \in {"write_challenge", "write_csr_config",
                                      "genrsa", "req"}
                     /\ st[p].path = d
                     /\ fs[d].exists /\ fs[d].by = p
                     /\ fs'[d].exists /\ fs'[d].by = p
                     /\ \A n \in FileNames :
                           fs[d].files[n] # Absent => fs'[d].files[n] = fs[d].files[n]
                  \/ /\ st[p].pc = "delete_ssl_pack"
                     /\ st[p].path = d
                     /\ fs[d].exists /\ fs[d].by = p
                     /\ fs'[d] = NoDir
    ]_vars

C15_Witness ==
    \E p \in Workers :
        LET h == md5(st[p].opts.cfg) IN
        /\ st[p].pc = "done"
        /\ st[p].path = StampPath(h, now)
        /\ ~fs[st[p].path].exists
        /\ fs[HashPath(h)].exists
        /\ ExpectedFiles \subseteq listdir(fs[HashPath(h)])

\* C16: cert.accounts is at every point a prefix, in order, of the requested
\* account list, and holds exactly the accounts whose upload has returned:
\* none whose upload was not attempted, none whose upload failed.
C16_AssociatedAfterUpload ==
    \A p \in Workers :
        LET w == st[p]
            n == Len(w.cert.accounts) IN
        /\ n <= Len(w.opts.accounts)
        /\ w.cert.accounts = SubSeq(w.opts.accounts, 1, n)
        /\ n <= Len(w.uploads)
        /\ \A i \in 1..n : w.uploads[i] = <<w.cert.accounts[i], TRUE>>
        /\ \A i \in 1..Len(w.uploads) : i > n => ~w.uploads[i][2]
        /\ n > 0 => w.cert.made

C16_Witness ==
    \E p \in Workers :
        /\ st[p].err.kind = "UploadError"
        /\ Len(st[p].cert.accounts) = 2
        /\ Len(st[p].uploads) = 3
        /\ ~st[p].uploads[3][2]

\* C17: a mint call that terminates with an error has persisted no
\* Certificate through database.update, and no destination account has
\* received the certificate and private key.
C17_AllOrNothing ==
    \A p \in Workers :
        st[p].pc = "aborted" =>
            /\ ~st[p].persisted
            /\ \A i \in 1..Len(st[p].uploads) : ~st[p].uploads[i][2]

\* C18: the directories that terminated mint calls left behind never make
\* the workspace creation of a later call fail: a call that runs while no
\* other worker has ever been active does not raise OSError from create_path.
C18_LeftoversDoNotInterfere ==
    \A p \in Workers :
        (\A q \in Workers \ {p} : st[q].pc = "idle") =>
            ~(st[p].pc = "aborted" /\ st[p].err.kind = "OSError" /\ st[p].path = NoPath)
====
